---- MODULE Spec2Model ----
(***************************************************************************)
(* State-machine model of the fantasy-football roster manager              *)
(* (routes.py, models.py, forms.py, app.py).                               *)
(*                                                                         *)
(* The database is the pair (teams, players).  Every request handler is    *)
(* modelled twice from the same pure operators:                            *)
(*   - as one atomic action (requests executed one at a time): Spec,       *)
(*     RosterSpec, LegacySpec, IngestSpec;                                 *)
(*   - as a sequence of steps, one per database round trip, taken by a     *)
(*     worker session (requests of several workers interleave): ConcSpec.  *)
(* Time is a count of clock ticks; a calendar day is TicksPerDay ticks.    *)
(***************************************************************************)
EXTENDS Integers, Sequences, FiniteSets, TLC

VARIABLES
    engine,     \* database backend chosen at start-up (app.py)
    now,        \* the clock: what datetime.utcnow() returns
    teams,      \* table team: id -> [name, user_id, created_at]
    teamSeq,    \* last value of the team id sequence (postgresql)
    players,    \* table player: sequence of rows, id = index
    resp,       \* outcome of the last request that ran atomically
    req         \* per worker session: the request it is serving

vars == <<engine, now, teams, teamSeq, players, resp, req>>

----------------------------------------------------------------------------
(* Bounds of the model *)

MaxTeamId == 2      \* team ids handed out are 1..MaxTeamId
MaxClock == 3       \* the clock stops at MaxClock
TicksPerDay == 2    \* clock ticks per calendar day
NumSessions == 2    \* concurrent worker sessions

Users == {1, 2}                     \* ids of the registered users
TeamIds == 1 .. MaxTeamId
Sessions == 1 .. NumSessions

\* Team names typed into TeamForm: one too short, two acceptable.
Names == {"ab", "Ann", "Bob"}

----------------------------------------------------------------------------
(* Column values *)

\* SQL NULL / Python None in an integer column.
None == -1

Positions == {"QB", "RB", "WR", "TE"}

Max(S) == CHOOSE m \in S : \A x \in S : x <= m

----------------------------------------------------------------------------
(* models.py *)

\* datetime.date(): the calendar day an instant falls on.
Date(t) == t \div TicksPerDay

\* A date bound to a DateTime column is compared as that day's midnight.
Midnight(d) == d * TicksPerDay

\* date(2025, 9, 1), as a day number: the day before is day 0.
IsActiveSeasonStart == 1

\* is_active with the season bound taken as exclusive.
is_active_Strict(team) == Date(team.created_at) > IsActiveSeasonStart

\* Team.is_active
is_active(team) == Date(team.created_at) >= IsActiveSeasonStart

\* Player rows owned by team id t (Player.query.filter_by(team_id=t)).
RosterOf(pls, t) == {p \in 1 .. Len(pls) : pls[p].team_id = t}

----------------------------------------------------------------------------
(* forms.py *)

\* TeamForm.name: DataRequired(), Length(min=3, max=100)
TeamFormMinLen == 3
TeamFormMaxLen == 100
validate_on_submit(name) == Len(name) >= TeamFormMinLen /\ Len(name) <= TeamFormMaxLen

----------------------------------------------------------------------------
(* The catalogue file Fantasy_Football_2025_Draft.csv: a sequence of rows   *)
(* with the raw POS and RK cells kept as sequences of characters.          *)

Row(name, pos, team, rk) == [name |-> name, POS |-> pos, TEAM |-> team, RK |-> rk]

SmallCsv ==
    << Row("Allen",   <<"Q", "B", "1">>, "BUF", <<"1">>),
       Row("Barkley", <<"r", "b", "1">>, "PHI", <<"2">>),
       Row("Tucker",  <<"K", "1">>,      "BAL", <<"3">>) >>

ConcCsv ==
    << Row("Allen", <<"Q", "B", "1">>, "BUF", <<"1">>) >>

RosterCsv ==
    << Row("Allen",    <<"Q", "B", "1">>, "BUF", <<"1">>),
       Row("Burrow",   <<"Q", "B", "2">>, "CIN", <<"2">>),
       Row("Daniels",  <<"Q", "B", "3">>, "WAS", <<"3">>),
       Row("Barkley",  <<"R", "B", "1">>, "PHI", <<"4">>),
       Row("Gibbs",    <<"R", "B", "2">>, "DET", <<"5">>),
       Row("Henry",    <<"R", "B", "3">>, "BAL", <<"6">>),
       Row("Chase",    <<"W", "R", "1">>, "CIN", <<"7">>),
       Row("Jefferson",<<"W", "R", "2">>, "MIN", <<"8">>),
       Row("Lamb",     <<"W", "R", "3">>, "DAL", <<"9">>),
       Row("Bowers",   <<"T", "E", "1">>, "LV",  <<>>) >>

\* Two editions of the catalogue: the first lists one key twice (the second
\* time with a rank that is no number), has a lower-case label, a player
\* with no rank and a kicker; the later edition has no rank for Allen.
DraftCsv ==
    << Row("Allen",   <<"Q", "B", "1">>, "BUF", <<"2">>),
       Row("Burrow",  <<"q", "b", "2">>, "CIN", <<"2">>),
       Row("Daniels", <<"Q", "B", "3">>, "WAS", <<>>),
       Row("Tucker",  <<"K", "1">>,      "BAL", <<"4">>),
       Row("Allen",   <<"Q", "B", "1">>, "BUF", <<"x">>) >>

UpdateCsv ==
    << Row("Allen",   <<"Q", "B", "1">>, "BUF", <<>>),
       Row("Burrow",  <<"Q", "B", "2">>, "CIN", <<"1">>),
       Row("Daniels", <<"Q", "B", "3">>, "WAS", <<"3">>) >>

Catalogues == {DraftCsv, UpdateCsv}

Digits == <<"0", "1", "2", "3", "4", "5", "6", "7", "8", "9">>
IsDigit(c) == \E i \in 1 .. Len(Digits) : Digits[i] = c
DigitVal(c) == (CHOOSE i \in 1 .. Len(Digits) : Digits[i] = c) - 1

Lower == <<"q", "b", "r", "w", "t", "e", "k">>
Upper == <<"Q", "B", "R", "W", "T", "E", "K">>

\* str.isalpha() of one character
isalpha(c) == \E i \in 1 .. Len(Lower) : c = Lower[i] \/ c = Upper[i]

\* str.upper() of one character
upper(c) ==
    IF \E i \in 1 .. Len(Lower) : c = Lower[i]
    THEN Upper[CHOOSE i \in 1 .. Len(Lower) : c = Lower[i]]
    ELSE c

\* "".join([c for c in pos_full if c.isalpha()]).upper()
RECURSIVE DerivePosition(_)
DerivePosition(cs) ==
    IF cs = <<>> THEN ""
    ELSE (IF isalpha(Head(cs)) THEN upper(Head(cs)) ELSE "") \o DerivePosition(Tail(cs))

\* int(rank_str) of a string of digits
RECURSIVE IntOf(_)
IntOf(cs) == IF cs = <<>> THEN 0 ELSE 10 * IntOf(SubSeq(cs, 1, Len(cs) - 1)) + DigitVal(cs[Len(cs)])

\* rank = int(rank_str) if rank_str else None; ValueError -> None
ParseRank(cs) ==
    IF cs = <<>> THEN None
    ELSE IF \A i \in 1 .. Len(cs) : IsDigit(cs[i]) THEN IntOf(cs)
    ELSE None

----------------------------------------------------------------------------
(* routes.py: players_browse, the catalogue import *)

\* ExistingPlayers that looks among the free agents only.
ExistingPlayers_FreeOnly(pls, name, position, nfl_team) ==
    {p \in 1 .. Len(pls) :
        /\ pls[p].name = name /\ pls[p].position = position /\ pls[p].nfl_team = nfl_team
        /\ pls[p].team_id = None}

\* Player.query.filter_by(name=, position=, nfl_team=).first()
ExistingPlayers(pls, name, position, nfl_team) ==
    {p \in 1 .. Len(pls) :
        pls[p].name = name /\ pls[p].position = position /\ pls[p].nfl_team = nfl_team}

NewPlayer(name, position, nfl_team, rank) ==
    [name |-> name, position |-> position, nfl_team |-> nfl_team,
     rank |-> rank, fantasy_points |-> None, team_id |-> None]

\* ImportRow that writes the whole row of an existing player anew.
ImportRow_Replace(pls, row) ==
    LET position == DerivePosition(row.POS)
        rank     == ParseRank(row.RK)
        existing == ExistingPlayers(pls, row.name, position, row.TEAM)
    IN  IF position \notin Positions THEN pls
        ELSE IF existing = {} THEN Append(pls, NewPlayer(row.name, position, row.TEAM, rank))
        ELSE [pls EXCEPT ![CHOOSE p \in existing : \A q \in existing : p <= q] =
                            NewPlayer(row.name, position, row.TEAM, rank)]

\* ImportRow without the check of the derived position.
ImportRow_AnyPosition(pls, row) ==
    LET position == DerivePosition(row.POS)
        rank     == ParseRank(row.RK)
        existing == ExistingPlayers(pls, row.name, position, row.TEAM)
    IN  IF existing = {} THEN Append(pls, NewPlayer(row.name, position, row.TEAM, rank))
        ELSE IF rank # None
             THEN [pls EXCEPT ![CHOOSE p \in existing : \A q \in existing : p <= q].rank = rank]
             ELSE pls

\* One iteration of the import loop (the session autoflushes before each query,
\* so rows added earlier in the same file are found).
ImportRow(pls, row) ==
    LET position == DerivePosition(row.POS)
        rank     == ParseRank(row.RK)
        existing == ExistingPlayers(pls, row.name, position, row.TEAM)
    IN  IF position \notin Positions THEN pls
        ELSE IF existing = {} THEN Append(pls, NewPlayer(row.name, position, row.TEAM, rank))
        ELSE IF rank # None
             THEN [pls EXCEPT ![CHOOSE p \in existing : \A q \in existing : p <= q].rank = rank]
             ELSE pls

RECURSIVE ImportRows(_, _)
ImportRows(pls, rows) ==
    IF rows = <<>> THEN pls ELSE ImportRows(ImportRow(pls, Head(rows)), Tail(rows))

\* String comparison of the names of the catalogue (ORDER BY name).
SortedNames ==
    <<"Allen", "Barkley", "Bowers", "Burrow", "Chase", "Daniels", "Gibbs",
      "Henry", "Jefferson", "Lamb", "Tucker">>

NameLess(a, b) ==
    \E i, j \in 1 .. Len(SortedNames) : SortedNames[i] = a /\ SortedNames[j] = b /\ i < j

\* ORDER BY rank: where an ascending sort puts NULL.  sqlite treats NULL as
\* smaller than every value, postgresql as larger.
RankLess(eng, r1, r2) ==
    IF r1 = None \/ r2 = None
    THEN IF eng = "sqlite" THEN r1 = None /\ r2 # None ELSE r1 # None /\ r2 = None
    ELSE r1 < r2

\* Row a sorts before row b under ORDER BY rank, name.
OrderedBefore(eng, pls, a, b) ==
    \/ RankLess(eng, pls[a].rank, pls[b].rank)
    \/ pls[a].rank = pls[b].rank /\ NameLess(pls[a].name, pls[b].name)

RECURSIVE SortRows(_, _, _)
SortRows(eng, pls, S) ==
    IF S = {} THEN << >>
    ELSE LET first == CHOOSE a \in S : \A b \in S : ~OrderedBefore(eng, pls, b, a)
         IN  <<first>> \o SortRows(eng, pls, S \ {first})

\* Player.query.filter_by(team_id=None, position=).order_by(rank, name).all():
\* the ids of the rows, in the order of the listing.
free_agents(eng, pls, position) ==
    SortRows(eng, pls, {p \in 1 .. Len(pls) : pls[p].team_id = None /\ pls[p].position = position})

----------------------------------------------------------------------------
(* seed_players.py *)

\* One iteration of the loop of seed_players: the RK column is not read and
\* an existing player is skipped.
SeedRow(pls, row) ==
    LET position == DerivePosition(row.POS)
        existing == ExistingPlayers(pls, row.name, position, row.TEAM)
    IN  IF position \notin Positions THEN pls
        ELSE IF existing # {} THEN pls
        ELSE Append(pls, NewPlayer(row.name, position, row.TEAM, None))

RECURSIVE SeedRows(_, _)
SeedRows(pls, rows) ==
    IF rows = <<>> THEN pls ELSE SeedRows(SeedRow(pls, Head(rows)), Tail(rows))

----------------------------------------------------------------------------
(* Requests of a worker session *)

\* op, pc: the handler and the statement it has reached; actor, team_id,
\* player_id, name: current_user and the request's arguments; position: the
\* position of the Player object the handler has loaded; result: the outcome
\* once pc = "done".  raced is history, not program state: it records that,
\* after this request had read its player as free, another request's add
\* of the same player to a different team was committed.  For the import of
\* players_browse: file is the catalogue read, row the number of its rows
\* processed, pending the Player objects added to the session, ranks the
\* rank assignments to stored rows (id -> rank), both not yet committed, and
\* flushed tells that the open transaction has written to the database.
IdleReq ==
    [op |-> "idle", pc |-> "idle", actor |-> None, team_id |-> None,
     player_id |-> None, name |-> "", position |-> "", result |-> "", raced |-> FALSE,
     file |-> << >>, row |-> 0, pending |-> << >>, ranks |-> << >>, flushed |-> FALSE]

----------------------------------------------------------------------------
(* Initial state: empty database, every worker idle, the clock at t *)

InitAt(t) ==
    /\ engine \in {"sqlite", "postgresql"}
    /\ now = t
    /\ teams = << >>
    /\ teamSeq = 0
    /\ players = << >>
    /\ resp = "none"
    /\ req = [s \in Sessions |-> IdleReq]

\* The application starts on the eve of the season.
Init == InitAt(Midnight(IsActiveSeasonStart) - 1)

\* The clock advances.
Tick ==
    /\ now < MaxClock
    /\ now' = now + 1
    /\ UNCHANGED <<engine, teams, teamSeq, players, resp, req>>

\* GET /players: import the catalogue file, then list the free agents.
players_browse(u, file) ==
    /\ players' = ImportRows(players, file)
    /\ resp' = "Browsed"
    /\ UNCHANGED <<engine, now, teams, teamSeq, req>>

\* python seed_players.py, run on a catalogue whose first line is the header.
seed_players(file) ==
    /\ players' = SeedRows(players, file)
    /\ resp' = "Seeded"
    /\ UNCHANGED <<engine, now, teams, teamSeq, req>>

----------------------------------------------------------------------------
(* routes.py: teams_index and the active_team query of players_browse *)

\* season_start = date(2025, 9, 1) in teams_index
TeamsIndexSeasonStart == 1

\* season_start = date(2025, 9, 1) in players_browse
BrowseSeasonStart == 1

\* The newest of a set of teams (order_by(Team.created_at.desc()).first()),
\* None when the set is empty.
Newest(tms, S) ==
    IF S = {} THEN None
    ELSE CHOOSE t \in S : \A x \in S : tms[x].created_at <= tms[t].created_at

\* teams_index: the rows of the active_team query and of the past_teams query.
index_active(tms, u) ==
    {t \in DOMAIN tms :
        tms[t].user_id = u /\ tms[t].created_at >= Midnight(TeamsIndexSeasonStart)}

index_past(tms, u) ==
    {t \in DOMAIN tms :
        tms[t].user_id = u /\ tms[t].created_at < Midnight(TeamsIndexSeasonStart)}

\* players_browse: the rows of the active_team query.
browse_active(tms, u) ==
    {t \in DOMAIN tms :
        tms[t].user_id = u /\ tms[t].created_at >= Midnight(BrowseSeasonStart)}

----------------------------------------------------------------------------
(* routes.py: teams_new *)

\* season_start = date(2025, 9, 1) in teams_new
TeamsNewSeasonStart == 1

\* existing_active with the season bound taken as exclusive.
existing_active_Strict(tms, u) ==
    {t \in DOMAIN tms :
        tms[t].user_id = u /\ tms[t].created_at > Midnight(TeamsNewSeasonStart)}

\* existing_active without the filter on the owner.
existing_active_AnyUser(tms, u) ==
    {t \in DOMAIN tms : tms[t].created_at >= Midnight(TeamsNewSeasonStart)}

\* Team.query.filter_by(user_id=u).filter(Team.created_at >= season_start)
existing_active(tms, u) ==
    {t \in DOMAIN tms :
        tms[t].user_id = u /\ tms[t].created_at >= Midnight(TeamsNewSeasonStart)}

\* Lines 100-110: the form, then the existing-active-team check.
TeamsNewCheck(tms, u, name) ==
    IF ~validate_on_submit(name) THEN "FormInvalid"
    ELSE IF existing_active(tms, u) # {} THEN "DuplicateActiveTeam"
    ELSE "ok"

\* The primary key the database gives a new team row: sqlite takes the
\* largest rowid in the table plus one, postgresql the next sequence value.
NextTeamId(eng, tms, seq) ==
    IF eng = "sqlite" THEN Max(DOMAIN tms \cup {0}) + 1 ELSE seq + 1

\* Team(name=, user_id=) inserted; created_at defaults to datetime.utcnow().
InsertTeam(tms, id, name, u, t) ==
    [x \in DOMAIN tms \cup {id} |->
        IF x = id THEN [name |-> name, user_id |-> u, created_at |-> t] ELSE tms[x]]

\* POST /teams/new
teams_new(u, name) ==
    LET r  == TeamsNewCheck(teams, u, name)
        id == NextTeamId(engine, teams, teamSeq)
    IN  /\ r = "ok" => id <= MaxTeamId
        /\ IF r = "ok"
           THEN /\ teams' = InsertTeam(teams, id, name, u, now)
                /\ teamSeq' = IF engine = "postgresql" THEN id ELSE teamSeq
                /\ resp' = "Created"
           ELSE /\ UNCHANGED <<teams, teamSeq>>
                /\ resp' = r
        /\ UNCHANGED <<engine, now, players, req>>

----------------------------------------------------------------------------
(* routes.py: teams_edit *)

\* TeamAuth with the season check made before the owner check.
TeamAuth_ArchivedFirst(tms, u, t) ==
    IF t \notin DOMAIN tms THEN "NotFound"
    ELSE IF ~is_active(tms[t]) THEN "TeamArchived"
    ELSE IF tms[t].user_id # u THEN "NotOwner"
    ELSE "ok"

\* Lines 172-179: get_or_404, the owner check, the active check.
TeamAuth(tms, u, t) ==
    IF t \notin DOMAIN tms THEN "NotFound"
    ELSE IF tms[t].user_id # u THEN "NotOwner"
    ELSE IF ~is_active(tms[t]) THEN "TeamArchived"
    ELSE "ok"

\* teams_edit with created_at refreshed on every update of the row.
teams_edit_Touch(u, t, name) ==
    LET r == TeamAuth(teams, u, t)
    IN  /\ IF r # "ok" THEN resp' = r /\ UNCHANGED teams
           ELSE IF ~validate_on_submit(name) THEN resp' = "FormInvalid" /\ UNCHANGED teams
           ELSE /\ teams' = [teams EXCEPT ![t].name = name, ![t].created_at = now]
                /\ resp' = "Updated"
        /\ UNCHANGED <<engine, now, teamSeq, players, req>>

\* POST /teams/<id>/edit
teams_edit(u, t, name) ==
    LET r == TeamAuth(teams, u, t)
    IN  /\ IF r # "ok" THEN resp' = r /\ UNCHANGED teams
           ELSE IF ~validate_on_submit(name) THEN resp' = "FormInvalid" /\ UNCHANGED teams
           ELSE /\ teams' = [teams EXCEPT ![t].name = name]
                /\ resp' = "Updated"
        /\ UNCHANGED <<engine, now, teamSeq, players, req>>

----------------------------------------------------------------------------
(* routes.py: teams_delete *)

\* DeleteAuth with the season check of the other handlers copied in.
DeleteAuth_ActiveOnly(tms, u, t) ==
    IF t \notin DOMAIN tms THEN "NotFound"
    ELSE IF tms[t].user_id # u THEN "NotOwner"
    ELSE IF ~is_active(tms[t]) THEN "TeamArchived"
    ELSE "ok"

\* Lines 195-199: get_or_404 and the owner check.
DeleteAuth(tms, u, t) ==
    IF t \notin DOMAIN tms THEN "NotFound"
    ELSE IF tms[t].user_id # u THEN "NotOwner"
    ELSE "ok"

\* ReleaseAll with the UPDATE left out.
ReleaseAll_Nothing(pls, t) == pls

\* Player.query.filter_by(team_id=team.id).update({Player.team_id: None})
ReleaseAll(pls, t) ==
    [p \in 1 .. Len(pls) |->
        IF pls[p].team_id = t THEN [pls[p] EXCEPT !.team_id = None] ELSE pls[p]]

\* db.session.delete(team)
RemoveTeam(tms, t) == [x \in DOMAIN tms \ {t} |-> tms[x]]

\* POST /teams/<id>/delete
teams_delete(u, t) ==
    LET r == DeleteAuth(teams, u, t)
    IN  /\ IF r # "ok" THEN resp' = r /\ UNCHANGED <<teams, players>>
           ELSE /\ players' = ReleaseAll(players, t)
                /\ teams' = RemoveTeam(teams, t)
                /\ resp' = "Deleted"
        /\ UNCHANGED <<engine, now, teamSeq, req>>

----------------------------------------------------------------------------
(* routes.py: players_add_to_team *)

MAX_TOTAL_PLAYERS == 8
MAX_QB == 2
MAX_RB == 3
MAX_WR == 3
MAX_TE == 2
MAX_OTHER == 99

\* MAX_PER_POSITION.get(position, 99)
MAX_PER_POSITION(position) ==
    CASE position = "QB" -> MAX_QB
      [] position = "RB" -> MAX_RB
      [] position = "WR" -> MAX_WR
      [] position = "TE" -> MAX_TE
      [] OTHER -> MAX_OTHER

\* AddPlayerCheck without the availability check.
AddPlayerCheck_NoAvailability(pls, p) ==
    IF p \notin 1 .. Len(pls) THEN "NotFound" ELSE "ok"

\* Lines 319-324: get_or_404 and the availability check.
AddPlayerCheck(pls, p) ==
    IF p \notin 1 .. Len(pls) THEN "NotFound"
    ELSE IF pls[p].team_id # None THEN "AlreadyOwned"
    ELSE "ok"

\* AddLimits without the total limit.
AddLimits_NoTotal(pls, t, position) ==
    LET current_players == RosterOf(pls, t)
        position_count  == Cardinality({q \in current_players : pls[q].position = position})
    IN  IF position_count >= MAX_PER_POSITION(position) THEN "PositionFull" ELSE "ok"

\* AddLimits with the position limit compared with > instead of >=.
AddLimits_PositionOffByOne(pls, t, position) ==
    LET current_players == RosterOf(pls, t)
        position_count  == Cardinality({q \in current_players : pls[q].position = position})
    IN  IF Cardinality(current_players) >= MAX_TOTAL_PLAYERS THEN "RosterFull"
        ELSE IF position_count > MAX_PER_POSITION(position) THEN "PositionFull"
        ELSE "ok"

\* AddLimits with the position limit checked before the total limit.
AddLimits_PositionFirst(pls, t, position) ==
    LET current_players == RosterOf(pls, t)
        position_count  == Cardinality({q \in current_players : pls[q].position = position})
    IN  IF position_count >= MAX_PER_POSITION(position) THEN "PositionFull"
        ELSE IF Cardinality(current_players) >= MAX_TOTAL_PLAYERS THEN "RosterFull"
        ELSE "ok"

\* Lines 331-349: the roster query, the total limit, the position limit.
AddLimits(pls, t, position) ==
    LET current_players == RosterOf(pls, t)
        position_count  == Cardinality({q \in current_players : pls[q].position = position})
    IN  IF Cardinality(current_players) >= MAX_TOTAL_PLAYERS THEN "RosterFull"
        ELSE IF position_count >= MAX_PER_POSITION(position) THEN "PositionFull"
        ELSE "ok"

\* The whole decision of players_add_to_team on one database snapshot.
AddOutcome(tms, pls, u, t, p) ==
    IF TeamAuth(tms, u, t) # "ok" THEN TeamAuth(tms, u, t)
    ELSE IF AddPlayerCheck(pls, p) # "ok" THEN AddPlayerCheck(pls, p)
    ELSE AddLimits(pls, t, pls[p].position)

\* player.team_id = team_id
Assign(pls, p, t) == [pls EXCEPT ![p].team_id = t]

\* POST /teams/<team_id>/players/<player_id>/add
players_add_to_team(u, t, p) ==
    LET r == AddOutcome(teams, players, u, t, p)
    IN  /\ IF r # "ok" THEN resp' = r /\ UNCHANGED players
           ELSE players' = Assign(players, p, t) /\ resp' = "Added"
        /\ UNCHANGED <<engine, now, teams, teamSeq, req>>

----------------------------------------------------------------------------
(* routes.py: players_remove_from_team *)

\* RemovePlayerCheck that accepts a player of any team.
RemovePlayerCheck_AnyTeam(pls, t, p) ==
    IF p \notin 1 .. Len(pls) THEN "NotFound"
    ELSE IF pls[p].team_id = None THEN "NotOnTeam"
    ELSE "ok"

\* Lines 369-373: get_or_404 and the membership check.
RemovePlayerCheck(pls, t, p) ==
    IF p \notin 1 .. Len(pls) THEN "NotFound"
    ELSE IF pls[p].team_id # t THEN "NotOnTeam"
    ELSE "ok"

RemoveOutcome(tms, pls, u, t, p) ==
    IF TeamAuth(tms, u, t) # "ok" THEN TeamAuth(tms, u, t)
    ELSE RemovePlayerCheck(pls, t, p)

\* Release whose write is lost.
Release_Nothing(pls, p) == pls

\* player.team_id = None
Release(pls, p) == [pls EXCEPT ![p].team_id = None]

\* POST /teams/<team_id>/players/<player_id>/remove
players_remove_from_team(u, t, p) ==
    LET r == RemoveOutcome(teams, players, u, t, p)
    IN  /\ IF r # "ok" THEN resp' = r /\ UNCHANGED players
           ELSE players' = Release(players, p) /\ resp' = "Removed"
        /\ UNCHANGED <<engine, now, teams, teamSeq, req>>

----------------------------------------------------------------------------
(* Requests executed one at a time *)

\* Player ids a request may name: every row, and one id with no row.
PlayerIds == 1 .. (Len(players) + 1)

SeqNext(U, N, file) ==
    \/ \E u \in U : players_browse(u, file)
    \/ \E u \in U, n \in N : teams_new(u, n)
    \/ \E u \in U, t \in TeamIds, n \in N : teams_edit(u, t, n)
    \/ \E u \in U, t \in TeamIds : teams_delete(u, t)
    \/ \E u \in U, t \in TeamIds, p \in PlayerIds : players_add_to_team(u, t, p)
    \/ \E u \in U, t \in TeamIds, p \in PlayerIds : players_remove_from_team(u, t, p)

Next == Tick \/ SeqNext(Users, Names, SmallCsv)

Spec == Init /\ [][Next]_vars

\* One user drafting from the full-size catalogue on the first day of the
\* season (the clock does not advance during the draft).
RosterUsers == {1}
RosterNames == {"Ann"}

RosterInit == InitAt(Midnight(IsActiveSeasonStart))

RosterNext == SeqNext(RosterUsers, RosterNames, RosterCsv)

RosterSpec == RosterInit /\ [][RosterNext]_vars

\* The application started on a database kept from before the season
\* (create_all adds missing tables and leaves the rows alone): user 1 owns a
\* team created on the last tick before season start, which holds player 1.
LegacyTeams == InsertTeam(<< >>, 1, "Old", 1, Midnight(IsActiveSeasonStart) - 1)

LegacyPlayers == Assign(ImportRows(<< >>, SmallCsv), 1, 1)

LegacyInit ==
    /\ engine \in {"sqlite", "postgresql"}
    /\ now = Midnight(IsActiveSeasonStart)
    /\ teams = LegacyTeams
    /\ teamSeq = 1
    /\ players = LegacyPlayers
    /\ resp = "none"
    /\ req = [s \in Sessions |-> IdleReq]

LegacyNext == SeqNext(Users, Names, SmallCsv)

LegacySpec == LegacyInit /\ [][LegacyNext]_vars

\* One user drafting on the first day of the season while the catalogue is
\* ingested again and again, from either edition, by the page and the script.
IngestUsers == {1}
IngestNames == {"Ann"}

IngestInit == InitAt(Midnight(IsActiveSeasonStart))

IngestNext ==
    \/ \E u \in IngestUsers, f \in Catalogues : players_browse(u, f)
    \/ \E f \in Catalogues : seed_players(f)
    \/ \E u \in IngestUsers, n \in IngestNames : teams_new(u, n)
    \/ \E u \in IngestUsers, t \in TeamIds : teams_delete(u, t)
    \/ \E u \in IngestUsers, t \in TeamIds, p \in PlayerIds : players_add_to_team(u, t, p)
    \/ \E u \in IngestUsers, t \in TeamIds, p \in PlayerIds : players_remove_from_team(u, t, p)

IngestSpec == IngestInit /\ [][IngestNext]_vars

\* Teams created, renamed and deleted from the first instant of the day
\* before the season on, while the clock runs into the season.
SeasonNames == {"Ann", "Bob"}

SeasonInit == InitAt(Midnight(IsActiveSeasonStart - 1))

SeasonNext ==
    \/ Tick
    \/ \E u \in Users, n \in SeasonNames : teams_new(u, n)
    \/ \E u \in Users, t \in TeamIds, n \in SeasonNames : teams_edit(u, t, n)
    \/ \E u \in Users, t \in TeamIds : teams_delete(u, t)

SeasonSpec == SeasonInit /\ [][SeasonNext]_vars

----------------------------------------------------------------------------
(* Requests of several workers interleaving: one step per database round   *)
(* trip.  Reads see the rows committed so far; the statements of one       *)
(* commit take effect together.                                            *)

Free(s) == req[s].pc \in {"idle", "done"}

\* teams_new, lines 100-110: the form and the existing-active-team query.
teams_new_check(s, u, name) ==
    /\ Free(s)
    /\ LET r == TeamsNewCheck(teams, u, name)
       IN  req' = [req EXCEPT ![s] =
                IF r = "ok"
                THEN [IdleReq EXCEPT !.op = "new", !.pc = "insert", !.actor = u, !.name = name]
                ELSE [IdleReq EXCEPT !.op = "new", !.pc = "done", !.result = r]]
    /\ UNCHANGED <<engine, now, teams, teamSeq, players, resp>>

\* teams_new, lines 113-115: INSERT INTO team, commit.
teams_new_commit(s) ==
    LET id == NextTeamId(engine, teams, teamSeq)
    IN  /\ req[s].op = "new" /\ req[s].pc = "insert"
        /\ id <= MaxTeamId
        /\ teams' = InsertTeam(teams, id, req[s].name, req[s].actor, now)
        /\ teamSeq' = IF engine = "postgresql" THEN id ELSE teamSeq
        /\ req' = [req EXCEPT ![s] = [IdleReq EXCEPT !.op = "new", !.pc = "done", !.result = "Created"]]
        /\ UNCHANGED <<engine, now, players, resp>>

\* teams_delete, lines 195-199: load the team, check the owner.
teams_delete_check(s, u, t) ==
    /\ Free(s)
    /\ LET r == DeleteAuth(teams, u, t)
       IN  req' = [req EXCEPT ![s] =
                IF r = "ok"
                THEN [IdleReq EXCEPT !.op = "delete", !.pc = "delete", !.actor = u, !.team_id = t]
                ELSE [IdleReq EXCEPT !.op = "delete", !.pc = "done", !.result = r]]
    /\ UNCHANGED <<engine, now, teams, teamSeq, players, resp>>

\* teams_delete, lines 202-204: UPDATE player, DELETE FROM team, commit.
teams_delete_commit(s) ==
    /\ req[s].op = "delete" /\ req[s].pc = "delete"
    /\ players' = ReleaseAll(players, req[s].team_id)
    /\ teams' = RemoveTeam(teams, req[s].team_id)
    /\ req' = [req EXCEPT ![s] = [IdleReq EXCEPT !.op = "delete", !.pc = "done", !.result = "Deleted"]]
    /\ UNCHANGED <<engine, now, teamSeq, resp>>

\* players_add_to_team, lines 310-317: load the team, check owner and season.
add_load_team(s, u, t, p) ==
    /\ Free(s)
    /\ LET r == TeamAuth(teams, u, t)
       IN  req' = [req EXCEPT ![s] =
                IF r = "ok"
                THEN [IdleReq EXCEPT !.op = "add", !.pc = "player", !.actor = u,
                                     !.team_id = t, !.player_id = p]
                ELSE [IdleReq EXCEPT !.op = "add", !.pc = "done", !.result = r]]
    /\ UNCHANGED <<engine, now, teams, teamSeq, players, resp>>

\* players_add_to_team, lines 319-324: load the player, check it is free.
add_load_player(s) ==
    /\ req[s].op = "add" /\ req[s].pc = "player"
    /\ LET r == AddPlayerCheck(players, req[s].player_id)
       IN  req' = [req EXCEPT ![s] =
                IF r = "ok"
                THEN [req[s] EXCEPT !.pc = "roster",
                                    !.position = players[req[s].player_id].position]
                ELSE [IdleReq EXCEPT !.op = "add", !.pc = "done", !.result = r]]
    /\ UNCHANGED <<engine, now, teams, teamSeq, players, resp>>

\* players_add_to_team, lines 331-349: query the roster, check the limits.
add_check_roster(s) ==
    /\ req[s].op = "add" /\ req[s].pc = "roster"
    /\ LET r == AddLimits(players, req[s].team_id, req[s].position)
       IN  req' = [req EXCEPT ![s] =
                IF r = "ok"
                THEN [req[s] EXCEPT !.pc = "write"]
                ELSE [IdleReq EXCEPT !.op = "add", !.pc = "done", !.result = r,
                                     !.raced = req[s].raced]]
    /\ UNCHANGED <<engine, now, teams, teamSeq, players, resp>>

\* Another request that has read the same player as free, for another team.
Rival(s, s2) ==
    /\ s2 # s
    /\ req[s2].op = "add" /\ req[s2].pc \in {"roster", "write"}
    /\ req[s2].player_id = req[s].player_id
    /\ req[s2].team_id # req[s].team_id

\* players_add_to_team, lines 352-353: UPDATE player SET team_id, commit.
\* postgresql enforces the foreign key player.team_id -> team.id and fails
\* the UPDATE when the team row is gone; sqlite (foreign keys off) does not.
add_commit(s) ==
    /\ req[s].op = "add" /\ req[s].pc = "write"
    /\ IF engine = "postgresql" /\ req[s].team_id \notin DOMAIN teams
       THEN /\ req' = [req EXCEPT ![s] = [IdleReq EXCEPT !.op = "add", !.pc = "done",
                                                         !.result = "IntegrityError",
                                                         !.raced = req[s].raced]]
            /\ UNCHANGED players
       ELSE /\ players' = Assign(players, req[s].player_id, req[s].team_id)
            /\ req' = [s2 \in Sessions |->
                    IF s2 = s
                    THEN [IdleReq EXCEPT !.op = "add", !.pc = "done", !.result = "Added",
                                         !.raced = req[s].raced]
                    ELSE IF Rival(s, s2) THEN [req[s2] EXCEPT !.raced = TRUE]
                    ELSE req[s2]]
    /\ UNCHANGED <<engine, now, teams, teamSeq, resp>>

ConcNames == {"Ann"}

ConcInit == InitAt(Midnight(IsActiveSeasonStart))

ConcNext ==
    \/ \E u \in Users : players_browse(u, ConcCsv)
    \/ \E s \in Sessions :
        \/ \E u \in Users, n \in ConcNames : teams_new_check(s, u, n)
        \/ teams_new_commit(s)
        \/ \E u \in Users, t \in TeamIds : teams_delete_check(s, u, t)
        \/ teams_delete_commit(s)
        \/ \E u \in Users, t \in TeamIds, p \in PlayerIds : add_load_team(s, u, t, p)
        \/ add_load_player(s)
        \/ add_check_roster(s)
        \/ add_commit(s)

ConcSpec == ConcInit /\ [][ConcNext]_vars

\* What the queries of session s see: the committed rows with the session's
\* own rank assignments, followed by the rows the session has added.
View(s) ==
    [p \in 1 .. Len(players) |->
        IF p \in DOMAIN req[s].ranks
        THEN [players[p] EXCEPT !.rank = req[s].ranks[p]]
        ELSE players[p]] \o req[s].pending

\* Session s has changes that the next query or the commit writes out.
Dirty(s) == req[s].pending # << >> \/ DOMAIN req[s].ranks # {}

\* A write of session s has to wait for the open transaction of another
\* session that has written: sqlite admits one writing transaction at a
\* time, postgresql locks the rows a transaction has updated.
MustWait(s) ==
    \E s2 \in Sessions \ {s} :
        /\ req[s2].flushed
        /\ \/ engine = "sqlite"
           \/ DOMAIN req[s2].ranks \cap DOMAIN req[s].ranks # {}

\* players_browse, lines 216-225: the file is opened.
browse_open(s, u, f) ==
    /\ Free(s)
    /\ req' = [req EXCEPT ![s] =
                [IdleReq EXCEPT !.op = "browse", !.pc = "loop", !.actor = u, !.file = f]]
    /\ UNCHANGED <<engine, now, teams, teamSeq, players, resp>>

\* players_browse, lines 226-258: one iteration of the loop.  The query
\* flushes what the session has pending (autoflush), then reads.
browse_row(s) ==
    /\ req[s].op = "browse" /\ req[s].pc = "loop"
    /\ req[s].row < Len(req[s].file)
    /\ Dirty(s) => ~MustWait(s)
    /\ LET after == ImportRow(View(s), req[s].file[req[s].row + 1])
           changed == {p \in 1 .. Len(players) : after[p].rank # players[p].rank}
       IN  req' = [req EXCEPT ![s] =
                [req[s] EXCEPT !.row = @ + 1,
                               !.pending = SubSeq(after, Len(players) + 1, Len(after)),
                               !.ranks = [p \in changed |-> after[p].rank],
                               !.flushed = @ \/ Dirty(s)]]
    /\ UNCHANGED <<engine, now, teams, teamSeq, players, resp>>

\* players_browse, line 259: db.session.commit() after the last row.
browse_commit(s) ==
    /\ req[s].op = "browse" /\ req[s].pc = "loop"
    /\ req[s].row = Len(req[s].file)
    /\ Dirty(s) => ~MustWait(s)
    /\ players' = View(s)
    /\ req' = [req EXCEPT ![s] = [IdleReq EXCEPT !.op = "browse", !.pc = "done",
                                                 !.result = "Browsed"]]
    /\ UNCHANGED <<engine, now, teams, teamSeq, resp>>

\* Two editions of a short catalogue, imported by the pages of two sessions.
RaceCatalogues ==
    { << Row("Allen",  <<"Q", "B", "1">>, "BUF", <<"2">>),
         Row("Burrow", <<"q", "b", "2">>, "CIN", <<"2">>) >>,
      << Row("Burrow", <<"Q", "B", "2">>, "CIN", <<"1">>) >> }

BrowseNext ==
    \E s \in Sessions :
        \/ \E u \in Users, f \in RaceCatalogues : browse_open(s, u, f)
        \/ browse_row(s)
        \/ browse_commit(s)

BrowseSpec == ConcInit /\ [][BrowseNext]_vars

\* One user with two sessions drafting quarterbacks (three in the catalogue,
\* two allowed on a team) into one team.
CapUsers == {1}

CapNext ==
    \/ \E u \in CapUsers : players_browse(u, DraftCsv)
    \/ \E s \in Sessions :
        \/ \E u \in CapUsers, n \in ConcNames : teams_new_check(s, u, n)
        \/ teams_new_commit(s)
        \/ \E u \in CapUsers, t \in TeamIds, p \in PlayerIds : add_load_team(s, u, t, p)
        \/ add_load_player(s)
        \/ add_check_roster(s)
        \/ add_commit(s)

CapSpec == ConcInit /\ [][CapNext]_vars

----------------------------------------------------------------------------
(* Properties *)

Count(pls, t, position) ==
    Cardinality({p \in RosterOf(pls, t) : pls[p].position = position})

FreePlayers(pls) == {p \in 1 .. Len(pls) : pls[p].team_id = None}

\* The teams of user u that are active (created_at at or after season start).
ActiveTeamsOf(tms, u) == {t \in DOMAIN tms : tms[t].user_id = u /\ is_active(tms[t])}

\* C1 (ConcSpec): of two concurrent add_player requests for the same free
\* player and two distinct teams, only one succeeds: a request that had read
\* the player as free when the other request's add was committed does not
\* itself report success (it must fail with AlreadyOwned).
C1_OnlyOneConcurrentAddSucceeds ==
    \A s \in Sessions :
        (req[s].op = "add" /\ req[s].pc = "done" /\ req[s].raced)
            => req[s].result = "AlreadyOwned"

\* C2 (RosterSpec): in every state reached by requests executed one at a
\* time, every team's roster holds at most 8 players.
C2_RosterAtMost8 ==
    \A t \in TeamIds : Cardinality(RosterOf(players, t)) <= 8

\* A team holds 8 players after a successful add, and a further player is free.
C2_Witness ==
    /\ resp = "Added"
    /\ \E t \in DOMAIN teams : Cardinality(RosterOf(players, t)) = 8
    /\ FreePlayers(players) # {}

\* C3 (RosterSpec): in every state reached by requests executed one at a
\* time, every team holds at most 2 QB, 3 RB, 3 WR and 2 TE.
C3_PositionCaps ==
    \A t \in TeamIds :
        /\ Count(players, t, "QB") <= 2
        /\ Count(players, t, "RB") <= 3
        /\ Count(players, t, "WR") <= 3
        /\ Count(players, t, "TE") <= 2

\* A team holds 2 QB after a successful add while a third QB is free.
C3_Witness ==
    /\ resp = "Added"
    /\ \E t \in DOMAIN teams :
        /\ Count(players, t, "QB") = 2
        /\ \E p \in FreePlayers(players) : players[p].position = "QB"

\* C4 (Spec): a delete_team request by the owner of team t succeeds; in the
\* state after it t does not exist, every player t owned is free, no player
\* references t, every other player's ownership and every other team are
\* unchanged.  Release and removal happen in one step: no step releases
\* several players of a team and leaves the team in place, and no state has
\* a player owned by a team that does not exist.
C4_DeleteReleasesTogether ==
    [][ /\ \A u \in Users, t \in TeamIds :
            (t \in DOMAIN teams /\ teams[t].user_id = u /\ teams_delete(u, t)) =>
                /\ resp' = "Deleted"
                /\ t \notin DOMAIN teams'
                /\ DOMAIN teams' = DOMAIN teams \ {t}
                /\ \A x \in DOMAIN teams' : teams'[x] = teams[x]
                /\ Len(players') = Len(players)
                /\ \A p \in 1 .. Len(players) :
                    /\ players'[p].team_id # t
                    /\ players'[p].team_id =
                         IF players[p].team_id = t THEN None ELSE players[p].team_id
        /\ \A t \in DOMAIN teams :
            Cardinality(RosterOf(players, t) \ RosterOf(players', t)) >= 2
                => t \notin DOMAIN teams'
        /\ \A p \in 1 .. Len(players') :
            players'[p].team_id # None => players'[p].team_id \in DOMAIN teams'
      ]_vars

\* A team has just been deleted; another team still owns a player and a
\* player is free.
C4_Witness ==
    /\ resp = "Deleted"
    /\ \E p \in 1 .. Len(players) : players[p].team_id \in DOMAIN teams
    /\ FreePlayers(players) # {}

\* C5 (ConcSpec): in every reachable state, also when a delete_team of team t
\* interleaves with an add_player to t, every non-null ownership reference
\* refers to a team that exists.
C5_NoDanglingOwnership ==
    \A p \in 1 .. Len(players) :
        players[p].team_id # None => players[p].team_id \in DOMAIN teams

\* C6 (ConcSpec): in every reachable state, also when two create_team
\* requests of one user interleave, each user owns at most one team whose
\* created_at is at or after season_start.
C6_AtMostOneActiveTeam ==
    \A u \in Users : Cardinality(ActiveTeamsOf(teams, u)) <= 1

\* What C7 says create_team(u, n) does.
CreatePost(u) ==
    IF ActiveTeamsOf(teams, u) # {}
    THEN /\ resp' = "DuplicateActiveTeam"
         /\ UNCHANGED <<teams, teamSeq, players, now, engine>>
    ELSE /\ resp' = "Created"
         /\ players' = players
         /\ \E id \in TeamIds \ DOMAIN teams :
                /\ DOMAIN teams' = DOMAIN teams \cup {id}
                /\ \A x \in DOMAIN teams : teams'[x] = teams[x]
                /\ teams'[id].user_id = u
                /\ teams'[id].created_at = now
                /\ RosterOf(players', id) = {}

\* C7 as stated (Spec): create_team(user, name) fails with
\* DuplicateActiveTeam, changing nothing, exactly when the user owns an
\* active team; in every other case it creates exactly one new team owned by
\* the user with created_at = now and an empty roster.
C7_CreateTeamAnyName ==
    [][ \A u \in Users, n \in Names : teams_new(u, n) => CreatePost(u) ]_vars

\* C7 amended (Spec): the same, for a name that TeamForm accepts (3 to 100
\* characters).
C7_CreateTeamValidName ==
    [][ \A u \in Users, n \in Names :
            (validate_on_submit(n) /\ teams_new(u, n)) => CreatePost(u) ]_vars

\* A user who owns an archived team and no active one has just created a
\* team at exactly season start.
C7_Witness ==
    /\ resp = "Created"
    /\ \E u \in Users :
        /\ \E t \in DOMAIN teams : teams[t].user_id = u /\ ~is_active(teams[t])
        /\ \E t \in DOMAIN teams :
            /\ teams[t].user_id = u
            /\ teams[t].created_at = now
            /\ now = Midnight(IsActiveSeasonStart)

\* C8 (Spec): add_player by the owner of an active team fails with
\* AlreadyOwned when the player is owned by any team (the target included),
\* changing no ownership; it succeeds only for a free player, and then
\* changes the ownership of that player only.
C8_AddAlreadyOwned ==
    [][ \A u \in Users, t \in TeamIds, p \in 1 .. Len(players) :
            (t \in DOMAIN teams /\ teams[t].user_id = u /\ is_active(teams[t])
                /\ players_add_to_team(u, t, p)) =>
                /\ players[p].team_id # None =>
                        resp' = "AlreadyOwned" /\ players' = players
                /\ resp' = "Added" =>
                        /\ players[p].team_id = None
                        /\ players' = [players EXCEPT ![p].team_id = t]
                /\ resp' # "Added" => players' = players
      ]_vars

\* An add has just been refused with AlreadyOwned while two teams of two
\* users each own a player.
C8_Witness ==
    /\ resp = "AlreadyOwned"
    /\ \E t1, t2 \in DOMAIN teams :
        /\ teams[t1].user_id # teams[t2].user_id
        /\ RosterOf(players, t1) # {}
        /\ RosterOf(players, t2) # {}

\* C9 (RosterSpec): add_player of a free player by the owner of an active
\* team answers RosterFull when the roster holds 8 players, whatever the
\* candidate's position (also when that position is at its cap), and
\* PositionFull when the roster holds fewer than 8 and the candidate's
\* position is at its cap; in both cases nothing changes.
C9_RosterFullBeforePositionFull ==
    [][ \A u \in RosterUsers, t \in TeamIds, p \in 1 .. Len(players) :
            (t \in DOMAIN teams /\ teams[t].user_id = u /\ is_active(teams[t])
                /\ players[p].team_id = None /\ players_add_to_team(u, t, p)) =>
                LET n == Cardinality(RosterOf(players, t))
                    k == Count(players, t, players[p].position)
                    cap == CASE players[p].position = "QB" -> 2
                             [] players[p].position = "RB" -> 3
                             [] players[p].position = "WR" -> 3
                             [] players[p].position = "TE" -> 2
                IN  /\ n >= 8 => resp' = "RosterFull" /\ players' = players
                    /\ (n < 8 /\ k = cap) => resp' = "PositionFull" /\ players' = players
      ]_vars

\* An add has just been refused with RosterFull: the team holds 8 players,
\* 2 of them QB, and the third QB is free.
C9_Witness ==
    /\ resp = "RosterFull"
    /\ \E t \in DOMAIN teams :
        /\ Cardinality(RosterOf(players, t)) = 8
        /\ Count(players, t, "QB") = 2
        /\ \E p \in FreePlayers(players) : players[p].position = "QB"

\* C10 (Spec): remove_player by the owner of an active team fails with
\* NotOnTeam, changing nothing, when the player is free or owned by another
\* team; otherwise it sets that player's ownership to null and leaves every
\* other player and every team unchanged.
C10_RemoveNotOnTeam ==
    [][ \A u \in Users, t \in TeamIds, p \in 1 .. Len(players) :
            (t \in DOMAIN teams /\ teams[t].user_id = u /\ is_active(teams[t])
                /\ players_remove_from_team(u, t, p)) =>
                IF players[p].team_id # t
                THEN resp' = "NotOnTeam" /\ players' = players /\ teams' = teams
                ELSE /\ resp' = "Removed"
                     /\ players' = [players EXCEPT ![p].team_id = None]
                     /\ teams' = teams
      ]_vars

\* A remove has just been refused with NotOnTeam while another user's team
\* owns a player.
C10_Witness ==
    /\ resp = "NotOnTeam"
    /\ \E t1, t2 \in DOMAIN teams :
        /\ teams[t1].user_id # teams[t2].user_id
        /\ is_active(teams[t1])
        /\ RosterOf(players, t2) # {}

\* The name and the roster of the teams that exist before and after a step.
NameOrRosterChanged(t) ==
    /\ t \in DOMAIN teams
    /\ \/ t \notin DOMAIN teams'
       \/ teams'[t].name # teams[t].name
       \/ RosterOf(players', t) # RosterOf(players, t)

\* C11 (Spec): rename_team, delete_team, add_player and remove_player by an
\* actor who is not the owner of the (existing) team fail with NotOwner and
\* change no team and no player, also when the team is archived, the name is
\* not acceptable, the player does not exist, is owned or is not on the
\* team; and a step that changes a team's name, roster or existence is a
\* request of that team's owner.
C11_NotOwnerFirst ==
    [][ /\ \A u \in Users, t \in TeamIds :
            (t \in DOMAIN teams /\ teams[t].user_id # u) =>
                /\ \A n \in Names : teams_edit(u, t, n) =>
                        resp' = "NotOwner" /\ teams' = teams /\ players' = players
                /\ teams_delete(u, t) =>
                        resp' = "NotOwner" /\ teams' = teams /\ players' = players
                /\ \A p \in PlayerIds :
                    /\ players_add_to_team(u, t, p) =>
                        resp' = "NotOwner" /\ teams' = teams /\ players' = players
                    /\ players_remove_from_team(u, t, p) =>
                        resp' = "NotOwner" /\ teams' = teams /\ players' = players
        /\ \A t \in TeamIds :
            NameOrRosterChanged(t) =>
                LET o == teams[t].user_id
                IN  \/ \E n \in Names : teams_edit(o, t, n)
                    \/ teams_delete(o, t)
                    \/ \E p \in PlayerIds :
                        players_add_to_team(o, t, p) \/ players_remove_from_team(o, t, p)
      ]_vars

\* A request has just been refused with NotOwner although every team that
\* exists is archived, while a later state of the clock lets teams be active.
C11_Witness ==
    /\ resp = "NotOwner"
    /\ DOMAIN teams # {}
    /\ \A t \in DOMAIN teams : ~is_active(teams[t])
    /\ now >= Midnight(IsActiveSeasonStart)

\* C13 (Spec): a team is active exactly when its created_at is at or after
\* the first instant of the season, whatever its name, owner, roster and the
\* current time: a team created at exactly season start is active, a team
\* created one tick before is archived.
C13_IsActiveIffCreatedInSeason ==
    \A t \in DOMAIN teams :
        /\ is_active(teams[t]) <=> teams[t].created_at >= Midnight(IsActiveSeasonStart)
        /\ teams[t].created_at = Midnight(IsActiveSeasonStart) => is_active(teams[t])
        /\ teams[t].created_at = Midnight(IsActiveSeasonStart) - 1 => ~is_active(teams[t])

\* One team was created at exactly season start and another one tick before,
\* and the clock has moved on since.
C13_Witness ==
    /\ \E t \in DOMAIN teams : teams[t].created_at = Midnight(IsActiveSeasonStart)
    /\ \E t \in DOMAIN teams : teams[t].created_at = Midnight(IsActiveSeasonStart) - 1
    /\ now > Midnight(IsActiveSeasonStart)

\* C20 (Spec): no step changes the created_at of a team that exists before
\* and after it, so a team that is archived stays archived for as long as it
\* exists, and no step turns an active team into an archived one.
C20_ArchivedIsOneWay ==
    [][ \A t \in DOMAIN teams \cap DOMAIN teams' :
            /\ teams'[t].created_at = teams[t].created_at
            /\ ~is_active(teams[t]) => ~is_active(teams'[t])
            /\ is_active(teams[t]) => is_active(teams'[t])
      ]_vars

\* A rename has just been refused for an archived team or made for an active
\* one, in a state that holds an archived team and an active team created
\* before the current tick.
C20_Witness ==
    /\ resp \in {"TeamArchived", "Updated"}
    /\ \E t \in DOMAIN teams : ~is_active(teams[t])
    /\ \E t \in DOMAIN teams : is_active(teams[t]) /\ teams[t].created_at < now

\* C12 (LegacySpec): for a team created before season start, rename_team,
\* add_player and remove_player by its owner fail with TeamArchived and
\* change no team and no player, whatever the name and the player; delete_team
\* by its owner succeeds, removes the team and frees exactly its players.
C12_ArchivedTeamOnlyDeletable ==
    [][ \A u \in Users, t \in TeamIds :
            (/\ t \in DOMAIN teams
             /\ teams[t].user_id = u
             /\ teams[t].created_at < Midnight(IsActiveSeasonStart)) =>
                /\ \A n \in Names : teams_edit(u, t, n) =>
                        resp' = "TeamArchived" /\ teams' = teams /\ players' = players
                /\ \A p \in PlayerIds :
                    /\ players_add_to_team(u, t, p) =>
                        resp' = "TeamArchived" /\ teams' = teams /\ players' = players
                    /\ players_remove_from_team(u, t, p) =>
                        resp' = "TeamArchived" /\ teams' = teams /\ players' = players
                /\ teams_delete(u, t) =>
                        /\ resp' = "Deleted"
                        /\ DOMAIN teams' = DOMAIN teams \ {t}
                        /\ \A x \in DOMAIN teams' : teams'[x] = teams[x]
                        /\ Len(players') = Len(players)
                        /\ \A p \in 1 .. Len(players) :
                            players'[p] = IF players[p].team_id = t
                                          THEN [players[p] EXCEPT !.team_id = None]
                                          ELSE players[p]
      ]_vars

\* The archived team, the only team there ever was (the id sequence is still
\* at 1), has just been deleted and the player it held is free.
C12_Witness ==
    /\ resp = "Deleted"
    /\ engine = "postgresql"
    /\ teamSeq = 1
    /\ DOMAIN teams = {}
    /\ players[1].team_id = None

\* The catalogue key of a stored player.
KeyOf(pl) == <<pl.name, pl.position, pl.nfl_team>>

NoDuplicateKeys(pls) ==
    \A p, q \in 1 .. Len(pls) : KeyOf(pls[p]) = KeyOf(pls[q]) => p = q

\* A second run over the catalogue that produced pls2 from pls1 left the set
\* of players and the set of free players as they were.
SamePlayers(pls1, pls2) ==
    /\ Len(pls2) = Len(pls1)
    /\ \A p \in 1 .. Len(pls1) : KeyOf(pls2[p]) = KeyOf(pls1[p])
    /\ FreePlayers(pls2) = FreePlayers(pls1)

\* C14 (IngestSpec): after every step no two players share a (name,
\* position, pro-team) key, also after ingesting a catalogue that lists a
\* key twice; and an ingestion run of a catalogue, by the page or by the
\* script, leaves a table that a second run of the same catalogue, by the
\* page or by the script, adds no player to and frees or takes no player in.
C14_IngestionIdempotent ==
    [][ /\ NoDuplicateKeys(players')
        /\ \A f \in Catalogues :
            ((\E u \in IngestUsers : players_browse(u, f)) \/ seed_players(f)) =>
                /\ SamePlayers(players', ImportRows(players', f))
                /\ SamePlayers(players', SeedRows(players', f))
      ]_vars

\* The first edition (which lists Allen twice) has just been ingested while
\* a team owns Allen: there are three players, not four.
C14_Witness ==
    /\ resp \in {"Browsed", "Seeded"}
    /\ Len(players) = 3
    /\ \E p \in 1 .. Len(players) : players[p].name = "Allen" /\ players[p].team_id # None

\* The rows of a catalogue whose derived position is accepted.
Candidates(f) == {i \in 1 .. Len(f) : DerivePosition(f[i].POS) \in Positions}

CandidateKey(row) == <<row.name, DerivePosition(row.POS), row.TEAM>>

\* The last candidate of catalogue f with the key of candidate i.
LastCandidate(f, i) ==
    Max({j \in Candidates(f) : CandidateKey(f[j]) = CandidateKey(f[i])})

\* C15 (IngestSpec): after an ingestion run, by the page or by the script,
\* the stored player of every candidate key carries the rank, as parsed
\* (null when empty or no number), of the last candidate with that key,
\* whether the key was present before the run or not; a key that was absent
\* is stored as a free player.
C15_LatestRankWins ==
    [][ \A f \in Catalogues :
            ((\E u \in IngestUsers : players_browse(u, f)) \/ seed_players(f)) =>
                \A i \in Candidates(f) :
                    \E p \in 1 .. Len(players') :
                        /\ KeyOf(players'[p]) = CandidateKey(f[i])
                        /\ players'[p].rank = ParseRank(f[LastCandidate(f, i)].RK)
                        /\ p > Len(players) => players'[p].team_id = None
      ]_vars

\* C16 (IngestSpec): an ingestion run, by the page or by the script, changes
\* no team, and of every player that existed before it leaves the owner,
\* fantasy points, name, position and pro-team as they were; every player
\* it inserts is a free agent.
C16_IngestionFrame ==
    [][ ((\E u \in IngestUsers, f \in Catalogues : players_browse(u, f))
            \/ (\E f \in Catalogues : seed_players(f))) =>
            /\ teams' = teams
            /\ teamSeq' = teamSeq
            /\ Len(players') >= Len(players)
            /\ \A p \in 1 .. Len(players) :
                /\ players'[p].team_id = players[p].team_id
                /\ players'[p].fantasy_points = players[p].fantasy_points
                /\ players'[p].name = players[p].name
                /\ players'[p].position = players[p].position
                /\ players'[p].nfl_team = players[p].nfl_team
            /\ \A p \in (Len(players) + 1) .. Len(players') : players'[p].team_id = None
      ]_vars

\* The page has just ingested a catalogue while a team owns Burrow, whose
\* rank is the one of the later edition.
C16_Witness ==
    /\ resp = "Browsed"
    /\ \E p \in 1 .. Len(players) :
        /\ players[p].name = "Burrow"
        /\ players[p].team_id \in DOMAIN teams
        /\ players[p].rank = 1

\* C17 (IngestSpec): an ingestion run changes no field of a player that a
\* team owns when it starts: what it writes are ranks of free agents and new
\* free players.
C17_OwnedPlayersUntouched ==
    [][ ((\E u \in IngestUsers, f \in Catalogues : players_browse(u, f))
            \/ (\E f \in Catalogues : seed_players(f))) =>
            \A p \in 1 .. Len(players) :
                players[p].team_id # None => players'[p] = players[p]
      ]_vars

\* C18 (IngestSpec): every stored player's position is one of QB, RB, WR,
\* TE; the label qb2 is stored as QB (letters kept, upper-cased); the kicker
\* of the catalogue (derived position K) is never stored, and its row makes
\* ingestion neither insert nor update a player.
C18_PositionsClosed ==
    /\ \A p \in 1 .. Len(players) :
        /\ players[p].position \in {"QB", "RB", "WR", "TE"}
        /\ players[p].name # "Tucker"
        /\ players[p].name = "Burrow" => players[p].position = "QB"
    /\ \A f \in Catalogues : \A i \in 1 .. Len(f) :
        f[i].name = "Tucker" =>
            /\ ImportRow(players, f[i]) = players
            /\ SeedRow(players, f[i]) = players

\* The first edition has been ingested by the page: Burrow, labelled qb2, is
\* stored as a QB with the rank of that edition.
C18_Witness ==
    /\ resp = "Browsed"
    /\ \E p \in 1 .. Len(players) :
        players[p].name = "Burrow" /\ players[p].position = "QB" /\ players[p].rank = 2

\* The listing of position pos shown by players_browse on the current table.
Listed(pos) == free_agents(engine, players, pos)

\* C19 (IngestSpec): the free-agent listing of every position holds exactly
\* the free players of that position, each once, ordered by rank ascending
\* with the players of null rank after all ranked ones, and by name
\* ascending among players of equal rank.
C19_FreeListingOrder ==
    \A pos \in Positions :
        LET L == Listed(pos)
        IN  /\ {L[i] : i \in 1 .. Len(L)} =
                    {p \in 1 .. Len(players) :
                        players[p].team_id = None /\ players[p].position = pos}
            /\ \A i, j \in 1 .. Len(L) : L[i] = L[j] => i = j
            /\ \A i, j \in 1 .. Len(L) :
                i < j =>
                    LET a == players[L[i]]
                        b == players[L[j]]
                    IN  /\ a.rank = None => b.rank = None
                        /\ (a.rank # None /\ b.rank # None) => a.rank <= b.rank
                        /\ a.rank = b.rank => ~NameLess(b.name, a.name)

\* C21 (SeasonSpec): the filter created_at >= season_start of teams_new, of
\* teams_index and of players_browse selects, for every user, exactly the
\* user's teams for which Team.is_active() is true, and the past_teams filter
\* exactly the others, whatever instant of the day before the season or of
\* the season-start day the team was created at; a user is refused a new team
\* exactly when the user owns a team that teams_edit accepts, and the active
\* team shown by both pages is such a team.
C21_ActivePredicatesAgree ==
    \A u \in Users :
        /\ \A t \in DOMAIN teams :
            LET mine == teams[t].user_id = u /\ is_active(teams[t])
                old  == teams[t].user_id = u /\ ~is_active(teams[t])
            IN  /\ (t \in existing_active(teams, u)) <=> mine
                /\ (t \in index_active(teams, u)) <=> mine
                /\ (t \in browse_active(teams, u)) <=> mine
                /\ (t \in index_past(teams, u)) <=> old
        /\ (TeamsNewCheck(teams, u, "Ann") = "DuplicateActiveTeam")
                <=> (\E t \in TeamIds : TeamAuth(teams, u, t) = "ok")
        /\ \A t \in {Newest(teams, index_active(teams, u)),
                       Newest(teams, browse_active(teams, u))} :
                t # None => TeamAuth(teams, u, t) = "ok"

\* One user owns a team created on the last instant before the season,
\* another user a team created on the first instant of the season, and the
\* clock has moved on.
C21_Witness ==
    \E t1, t2 \in DOMAIN teams :
        /\ teams[t1].created_at = Midnight(IsActiveSeasonStart) - 1
        /\ teams[t2].created_at = Midnight(IsActiveSeasonStart)
        /\ teams[t1].user_id # teams[t2].user_id
        /\ now > Midnight(IsActiveSeasonStart)

\* C24 (RosterSpec): for the owner of an active team, a remove_player that
\* succeeds leaves a state in which add_player of the same player to the
\* same team succeeds and gives back the table of players as it was before
\* the remove; an add_player that succeeds leaves a state in which
\* remove_player of that player succeeds and gives back the table as it was
\* before the add.  The teams are untouched by both.
C24_RemoveAddRoundTrip ==
    [][ \A u \in RosterUsers, t \in TeamIds, p \in 1 .. Len(players) :
            (t \in DOMAIN teams /\ teams[t].user_id = u /\ is_active(teams[t])) =>
                /\ (players[p].team_id = t /\ players_remove_from_team(u, t, p)) =>
                        /\ resp' = "Removed"
                        /\ players'[p].team_id = None
                        /\ AddOutcome(teams', players', u, t, p) = "ok"
                        /\ Assign(players', p, t) = players
                        /\ teams' = teams
                /\ (players[p].team_id = None /\ players_add_to_team(u, t, p)
                        /\ resp' = "Added") =>
                        /\ players'[p].team_id = t
                        /\ RemoveOutcome(teams', players', u, t, p) = "ok"
                        /\ Release(players', p) = players
                        /\ teams' = teams
      ]_vars

\* A player has just been removed from a roster that was full: the team is
\* left with 7 players, one of them a QB, and two QBs are free.
C24_Witness ==
    /\ resp = "Removed"
    /\ \E t \in DOMAIN teams :
        /\ Cardinality(RosterOf(players, t)) = 7
        /\ Count(players, t, "QB") = 1
        /\ Cardinality({p \in FreePlayers(players) : players[p].position = "QB"}) = 2

\* C22 (CapSpec): in every reachable state, also when two add_player
\* requests of the owner for two different free players interleave on one
\* team (both read the roster before either commits), every team holds at
\* most 8 players and at most 2 QB, 3 RB, 3 WR and 2 TE.
C22_LimitsUnderInterleaving ==
    \A t \in TeamIds :
        /\ Cardinality(RosterOf(players, t)) <= MAX_TOTAL_PLAYERS
        /\ \A pos \in Positions : Count(players, t, pos) <= MAX_PER_POSITION(pos)

\* C23 (BrowseSpec): in every reachable state, also when the imports of two
\* players_browse requests interleave (both look a new key up before either
\* commits), no two player records share a (name, position, pro-team) key.
C23_UniqueKeysUnderInterleaving ==
    \A p, q \in 1 .. Len(players) :
        (/\ players[p].name = players[q].name
         /\ players[p].position = players[q].position
         /\ players[p].nfl_team = players[q].nfl_team) => p = q

====
